---- MODULE Spec2Model ----
(***************************************************************************)
(* A model of selene's Roblox standard-library generator                   *)
(* (src/selene/src/roblox/generate_std.rs): RobloxGenerator::generate and  *)
(* the pipeline of start_generation, with the recursion of                 *)
(* write_class_struct / write_class_members unfolded into an explicit      *)
(* stack of frames, one step per member of a member list.                  *)
(***************************************************************************)
EXTENDS Integers, Sequences, FiniteSets, TLC

(***************************************************************************)
(* Bounds of the model.                                                    *)
(***************************************************************************)
\* Clock readings are 0..MaxClock, in half seconds.
MaxClock == 2
\* Number of calls of generate() in one behaviour (the same dump each time).
MaxRuns == 2
\* Superclass hops one walk can make before a build that keeps a frame per
\* recursive call exhausts its stack; above the longest acyclic chain.
StackLimit == 8

(***************************************************************************)
(* Rust values.                                                            *)
(***************************************************************************)
\* Option<T>: None is the empty sequence, Some(x) the one-element sequence.
None == <<>>
Some(x) == <<x>>

\* Vec::contains
Contains(s, x) == \E i \in 1..Len(s) : s[i] = x

\* BTreeMap: a function from its keys; insert replaces the value of a key
\* that is present.
EmptyMap == <<>>
Insert(map, k, v) == [x \in (DOMAIN map) \cup {k} |-> IF x = k THEN v ELSE map[x]]

ROOT == "<<<ROOT>>>"

(***************************************************************************)
(* The API dump (super::api) and the descriptor (selene_lib).              *)
(***************************************************************************)
DefaultSecurity == [read |-> "None", write |-> "None"]

Callback(name, tags) == [type |-> "Callback", name |-> name, tags |-> tags]
Event(name, tags) == [type |-> "Event", name |-> name, tags |-> tags]
Function(name, tags, parameters) ==
    [type |-> "Function", name |-> name, tags |-> tags, parameters |-> parameters]
Property(name, tags, security, value_type) ==
    [type |-> "Property", name |-> name, tags |-> tags,
     security |-> security, value_type |-> value_type]
Unknown == [type |-> "Unknown"]

ClassType(name) == [category |-> "Class", name |-> name]
DataType(value) == [category |-> "DataType", value |-> value]
Primitive(name) == [category |-> "Primitive", name |-> name]

\* ApiDataType::has_custom_methods: everything but the plain content string.
has_custom_methods(value) == value # "Content"

\* FieldKind
StructKind(name) == [kind |-> "Struct", name |-> name]
PropertyKind(writability) == [kind |-> "Property", writability |-> writability]
FunctionKind(behavior) == [kind |-> "Function", behavior |-> behavior]
AnyKind == [kind |-> "Any"]

\* Field::from_field_kind: the kind, and no deprecation.
from_field_kind(field_kind) == [field_kind |-> field_kind, deprecated |-> None]

\* The annotation of line 198..201.
DeprecatedNote == [message |-> "this property is deprecated.", replace |-> <<>>]

\* The structs the baseline descriptor brings: never synthesized.
BaseStructs == {"Instance", "Event", "EnumItem"}

\* StandardLibrary::roblox_base()
roblox_base ==
    [base |-> Some("luau"),
     globals |-> EmptyMap,
     structs |-> [s \in BaseStructs |-> EmptyMap],
     roblox_classes |-> EmptyMap,
     last_updated |-> None,
     last_selene_version |-> None]

\* StandardLibrary::from_name(base): the parent the result is extended with.
ParentLibrary ==
    [globals |-> [g \in {"print"} |->
                    from_field_kind(FunctionKind([arguments |-> <<>>,
                                                  method |-> FALSE,
                                                  must_use |-> FALSE]))],
     structs |-> EmptyMap]

\* StandardLibrary::extend: the parent's entries, where self has none.
Merge(own, parent) ==
    [k \in (DOMAIN own) \cup (DOMAIN parent) |->
        IF k \in DOMAIN own THEN own[k] ELSE parent[k]]
extend(lib, parent) ==
    [lib EXCEPT !.globals = Merge(@, parent.globals),
                !.structs = Merge(@, parent.structs)]

\* env!("CARGO_PKG_VERSION")
CARGO_PKG_VERSION == "0.0.0"

(***************************************************************************)
(* The API dumps the generator is run on: seven classes in dump order,     *)
(* each with a superclass, class tags and a selection of the members below.*)
(***************************************************************************)
ClassOrder ==
    <<"Instance", "ServiceProvider", "DataModel", "Plugin", "Script",
      "Workspace", "Terrain">>
ClassNames == {ClassOrder[i] : i \in 1..Len(ClassOrder)}

RestrictedSecurity == [read |-> "None", write |-> "PluginSecurity"]

Candidates ==
    [c \in ClassNames |->
        CASE c = "Instance" ->
               <<Property("Name", None, DefaultSecurity, Primitive("string")),
                 Property("Parent", Some(<<"Deprecated">>), DefaultSecurity,
                          ClassType("Instance")),
                 Function("GetService", Some(<<"Deprecated">>), <<>>),
                 Property("Child", None, DefaultSecurity, ClassType("Terrain"))>>
          [] c = "ServiceProvider" ->
               <<Unknown,
                 Function("GetService", None, <<"className">>),
                 Property("Name", Some(<<"Deprecated">>), RestrictedSecurity,
                          Primitive("string"))>>
          [] c = "DataModel" ->
               <<Event("Name", Some(<<"Deprecated">>)),
                 Property("Plugin", Some(<<"ReadOnly", "Deprecated">>),
                          DefaultSecurity, ClassType("Plugin"))>>
          [] c = "Plugin" ->
               <<Property("Host", None, DefaultSecurity, ClassType("DataModel")),
                 Property("Size", Some(<<"ReadOnly">>), DefaultSecurity,
                          DataType("Vector3"))>>
          [] c = "Script" ->
               <<Callback("Name", None),
                 Property("Source", Some(<<"ReadOnly">>), DefaultSecurity,
                          DataType("Content")),
                 Property("Self", Some(<<>>), DefaultSecurity, ClassType("Script"))>>
          [] c = "Workspace" ->
               <<Property("Terrain", None, DefaultSecurity, ClassType("Terrain")),
                 Property("Camera", None, DefaultSecurity, ClassType("Camera")),
                 Property("Hidden", Some(<<"Deprecated">>), RestrictedSecurity,
                          ClassType("Terrain"))>>
          [] OTHER ->
               <<Unknown,
                 Property("Name", None, RestrictedSecurity, Primitive("string")),
                 Property("Owner", None, DefaultSecurity, ClassType("Workspace")),
                 Property("Provider", Some(<<"Deprecated">>), DefaultSecurity,
                          ClassType("ServiceProvider"))>>]

\* The members of seq at the positions in S, in order.
RECURSIVE PickFrom(_, _, _)
PickFrom(seq, S, i) ==
    IF i > Len(seq) THEN <<>>
    ELSE (IF i \in S THEN <<seq[i]>> ELSE <<>>) \o PickFrom(seq, S, i + 1)

DefaultSuper ==
    [c \in ClassNames |->
        CASE c = "Instance" -> ROOT
          [] c = "ServiceProvider" -> "Instance"
          [] c = "DataModel" -> "ServiceProvider"
          [] OTHER -> "Instance"]
DefaultSel ==
    [c \in ClassNames |->
        CASE c \in {"Instance", "Script"} -> {1}
          [] c = "ServiceProvider" -> {2}
          [] OTHER -> {}]
DefaultTags ==
    [c \in ClassNames |->
        CASE c \in {"DataModel", "Workspace"} -> <<"NotCreatable", "Service">>
          [] c = "Script" -> <<>>
          [] OTHER -> <<"NotCreatable">>]
StyleEnum == [name |-> "Style", items |-> <<[name |-> "A"], [name |-> "B"]>>]
DefaultScenario ==
    [sup |-> DefaultSuper, sel |-> DefaultSel, tags |-> DefaultTags,
     enums |-> <<StyleEnum>>]

TagChoices == {<<>>, <<"Service">>, <<"NotCreatable">>, <<"NotCreatable", "Service">>}

\* Member lists along the chain DataModel -> ServiceProvider -> Instance.
ChainScenarios ==
    {[DefaultScenario EXCEPT !.sel["Instance"] = i, !.sel["ServiceProvider"] = s,
                             !.sel["DataModel"] = d] :
        i \in SUBSET {1, 2, 3, 4}, s \in SUBSET {1, 2, 3}, d \in SUBSET {1, 2}}
\* Class-typed properties between classes, and members of the other classes.
ReferenceScenarios ==
    {[DefaultScenario EXCEPT !.sel["DataModel"] = d, !.sel["Plugin"] = p] :
        d \in {{}, {2}}, p \in SUBSET {1, 2}}
    \cup {[DefaultScenario EXCEPT !.sel["Workspace"] = w, !.sel["Terrain"] = t] :
        w \in SUBSET {1, 2, 3}, t \in SUBSET {1, 2, 3, 4}}
    \cup {[DefaultScenario EXCEPT !.sel["Script"] = c] : c \in SUBSET {1, 2, 3}}
\* Superclass links, with cycles and a class that is not in the dump.
SuperScenarios ==
    {[DefaultScenario EXCEPT !.sup["DataModel"] = d, !.sup["ServiceProvider"] = s,
                             !.sup["Instance"] = i, !.sup["Script"] = c] :
        d \in {"ServiceProvider", ROOT, "DataModel"},
        s \in {"Instance", "DataModel"},
        i \in {ROOT, "ServiceProvider", "Instance"},
        c \in {"Instance", "Camera"}}
\* Class tags and enums.
TagScenarios ==
    {[DefaultScenario EXCEPT !.tags["Script"] = a, !.tags["Terrain"] = b,
                             !.enums = e] :
        a \in TagChoices, b \in TagChoices, e \in {<<>>, <<StyleEnum>>}}
Scenarios == ChainScenarios \cup ReferenceScenarios \cup SuperScenarios \cup TagScenarios

MkApi(sc) ==
    [classes |-> [i \in 1..Len(ClassOrder) |->
                    [name |-> ClassOrder[i],
                     superclass |-> sc.sup[ClassOrder[i]],
                     tags |-> sc.tags[ClassOrder[i]],
                     members |-> PickFrom(Candidates[ClassOrder[i]],
                                          sc.sel[ClassOrder[i]], 1)]],
     enums |-> sc.enums]
ApiDumps == {MkApi(sc) : sc \in Scenarios}

(***************************************************************************)
(* Member classification: the match of write_class_members.                *)
(***************************************************************************)
\* Lines 143..147 and 190..194: a missing tag list is an empty one.
TagsOf(tags) == IF tags = None THEN <<>> ELSE tags[1]

\* Lines 124..128: the argument every parameter becomes.
AnyArgument ==
    [argument_type |-> [type |-> "Any"], required |-> "NotRequired",
     observes |-> "ReadWrite"]

\* Mutant: the security of the property is not looked at.
PropertyField_any_security(m) ==
    LET tags == TagsOf(m.tags)
        default_field ==
            Some(from_field_kind(PropertyKind(
                IF Contains(tags, "ReadOnly") THEN "ReadOnly"
                                              ELSE "OverrideFields")))
    IN CASE m.value_type.category = "Class" ->
              Some(from_field_kind(StructKind(m.value_type.name)))
         [] m.value_type.category = "DataType" ->
              IF has_custom_methods(m.value_type.value)
              THEN Some(from_field_kind(AnyKind))
              ELSE default_field
         [] OTHER -> default_field

\* Lines 136..178: the field of a Property member, None when its security
\* is not the default.
PropertyField(m) ==
    IF m.security = DefaultSecurity
    THEN LET tags == TagsOf(m.tags)
             default_field ==
                 Some(from_field_kind(PropertyKind(
                     IF Contains(tags, "ReadOnly") THEN "ReadOnly"
                                                   ELSE "OverrideFields")))
         IN CASE m.value_type.category = "Class" ->
                   Some(from_field_kind(StructKind(m.value_type.name)))
              [] m.value_type.category = "DataType" ->
                   IF has_custom_methods(m.value_type.value)
                   THEN Some(from_field_kind(AnyKind))
                   ELSE default_field
              [] OTHER -> default_field
    ELSE None

\* Lines 96..178: the Option<Field> of a member that is not Unknown.
MemberField(m) ==
    CASE m.type = "Callback" ->
           Some(from_field_kind(PropertyKind("OverrideFields")))
      [] m.type = "Event" -> Some(from_field_kind(StructKind("Event")))
      [] m.type = "Function" ->
           Some(from_field_kind(FunctionKind(
               [arguments |-> [i \in 1..Len(m.parameters) |-> AnyArgument],
                method |-> TRUE,
                must_use |-> FALSE])))
      [] m.type = "Property" -> PropertyField(m)

\* Mutant: no member makes write_class_members synthesize a struct.
CallsClassStruct_never(m) == FALSE

\* Lines 142 and 157..159: the member makes write_class_members call
\* write_class_struct.
CallsClassStruct(m) ==
    /\ m.type = "Property"
    /\ m.security = DefaultSecurity
    /\ m.value_type.category = "Class"

\* Mutant: any tag list, whatever its tags, marks the field deprecated.
Deprecate_any_tags(field, tags) ==
    IF tags # None THEN [field EXCEPT !.deprecated = Some(DeprecatedNote)]
    ELSE field

\* Lines 197..202
Deprecate(field, tags) ==
    IF Contains(TagsOf(tags), "Deprecated")
    THEN [field EXCEPT !.deprecated = Some(DeprecatedNote)]
    ELSE field

\* Lines 196..205: the table after the member's field, if any, is inserted.
InsertMember(table, m) ==
    LET field == MemberField(m)
    IN IF field # None THEN Insert(table, m.name, Deprecate(field[1], m.tags))
       ELSE table

\* The member of the dump a table entry was last written for: class name
\* and position in that class's member list (kept beside the table).
InsertOrigin(origin, m, class_name, idx) ==
    IF MemberField(m) # None
    THEN Insert(origin, m.name, [class_name |-> class_name, idx |-> idx])
    ELSE origin

(***************************************************************************)
(* State.                                                                  *)
(***************************************************************************)
VARIABLES
    api,          \* the API dump start_generation fetched
    cfg_test,     \* cfg!(test)
    std,          \* RobloxGenerator.std
    pc,           \* the statement of start_generation to run next
    stack,        \* frames of write_class_struct, innermost last
    origins,      \* per finished struct, the member each entry came from
    walks,        \* per class, how often write_class_struct walked it
    panic_msg,    \* the message of the panic that ended the run
    bytes,        \* the bytes start_generation returned
    prev_bytes,   \* the bytes of the previous call of generate()
    runs          \* calls of generate() so far

vars ==
    <<api, cfg_test, std, pc, stack, origins, walks, panic_msg, bytes,
      prev_bytes, runs>>

\* Lines 30..33: the global and the class of each write_class call.
WellKnown ==
    [game |-> "DataModel", plugin |-> "Plugin", script |-> "Script",
     workspace |-> "Workspace"]
AfterStage(stage) ==
    CASE stage = "game" -> "plugin"
      [] stage = "plugin" -> "script"
      [] stage = "script" -> "workspace"
      [] stage = "workspace" -> "write_enums"

UnwrapNone == "called Option::unwrap() on a None value"
UnknownPanic(class_name) ==
    "unknown property found in Roblox API dump for " \o class_name

\* api.classes.iter().find(|c| c.name == class_name)
FindClass(class_name) ==
    LET S == {i \in 1..Len(api.classes) : api.classes[i].name = class_name}
    IN IF S = {} THEN None
       ELSE Some(api.classes[CHOOSE i \in S : \A j \in S : i <= j])

\* Mutant: the fresh table is not seeded with the wildcard.
NewFrame_no_wildcard(class_name) ==
    [owner |-> class_name,
     table |-> EmptyMap,
     origin |-> EmptyMap,
     class_name |-> class_name,
     idx |-> 1,
     hops |-> 0]

\* Lines 76..82: the fresh table, and the walk of the own members of the class.
NewFrame(class_name) ==
    [owner |-> class_name,
     table |-> Insert(EmptyMap, "*", from_field_kind(StructKind("Instance"))),
     origin |-> EmptyMap,
     class_name |-> class_name,
     idx |-> 1,
     hops |-> 0]

Top == stack[Len(stack)]
TopClass == FindClass(Top.class_name)[1]
Walking == pc \in DOMAIN WellKnown /\ stack # <<>>
AtMember == Walking /\ Top.idx <= Len(TopClass.members)
AtEnd == Walking /\ Top.idx > Len(TopClass.members)
ReplaceTop(frame) == [stack EXCEPT ![Len(stack)] = frame]
Count(class_name) == IF class_name \in DOMAIN walks THEN walks[class_name] ELSE 0

Init ==
    /\ api \in ApiDumps
    /\ cfg_test \in BOOLEAN
    /\ std = roblox_base
    /\ pc = "game"
    /\ stack = <<>>
    /\ origins = EmptyMap
    /\ walks = EmptyMap
    /\ panic_msg = ""
    /\ bytes = <<>>
    /\ prev_bytes = <<>>
    /\ runs = 1

\* Lines 68..72: write_class_struct returns at once for a known struct.
StructKnown(class_name) == class_name \in DOMAIN std.structs

\* Mutant: the key is not reserved before the members are walked.
StructCall_unreserved(class_name, callers) ==
    /\ std' = std
    /\ IF FindClass(class_name) = None
       THEN /\ pc' = "panicked"
            /\ panic_msg' = UnwrapNone
            /\ stack' = callers
            /\ walks' = walks
       ELSE /\ stack' = Append(callers, NewFrame(class_name))
            /\ walks' = Insert(walks, class_name, Count(class_name) + 1)
            /\ UNCHANGED <<pc, panic_msg>>

\* Lines 74..82 and 93: write_class_struct reserves the key and enters
\* write_class_members, which panics when the class is not in the dump.
StructCall(class_name, callers) ==
    /\ std' = [std EXCEPT !.structs = Insert(@, class_name, EmptyMap)]
    /\ IF FindClass(class_name) = None
       THEN /\ pc' = "panicked"
            /\ panic_msg' = UnwrapNone
            /\ stack' = callers
            /\ walks' = walks
       ELSE /\ stack' = Append(callers, NewFrame(class_name))
            /\ walks' = Insert(walks, class_name, Count(class_name) + 1)
            /\ UNCHANGED <<pc, panic_msg>>

\* Lines 60..66: write_class, up to the return of write_class_struct when
\* the struct has to be synthesized.
write_class ==
    /\ pc \in DOMAIN WellKnown
    /\ stack = <<>>
    /\ \/ /\ StructKnown(WellKnown[pc])
          /\ std' = [std EXCEPT !.globals =
                        Insert(@, pc, from_field_kind(StructKind(WellKnown[pc])))]
          /\ pc' = AfterStage(pc)
          /\ UNCHANGED <<stack, walks, panic_msg>>
       \/ /\ ~StructKnown(WellKnown[pc])
          /\ StructCall(WellKnown[pc], <<>>)
    /\ UNCHANGED <<api, cfg_test, origins, bytes, prev_bytes, runs>>

\* Lines 95..205, one iteration: a member that calls nothing.
WalkMember ==
    /\ AtMember
    /\ LET m == TopClass.members[Top.idx]
       IN /\ m.type # "Unknown"
          /\ ~CallsClassStruct(m)
          /\ stack' = ReplaceTop(
                 [Top EXCEPT !.table = InsertMember(@, m),
                             !.origin = InsertOrigin(@, m, Top.class_name, Top.idx),
                             !.idx = @ + 1])
    /\ UNCHANGED <<api, cfg_test, std, pc, origins, walks, panic_msg, bytes,
                   prev_bytes, runs>>

\* Mutant: the test of cfg!(test) is inverted.
WalkUnknown_inverted ==
    /\ AtMember
    /\ TopClass.members[Top.idx].type = "Unknown"
    /\ \/ /\ ~cfg_test
          /\ pc' = "panicked"
          /\ panic_msg' = UnknownPanic(Top.class_name)
          /\ UNCHANGED stack
       \/ /\ cfg_test
          /\ stack' = ReplaceTop([Top EXCEPT !.idx = @ + 1])
          /\ UNCHANGED <<pc, panic_msg>>
    /\ UNCHANGED <<api, cfg_test, std, origins, walks, bytes, prev_bytes, runs>>

\* Lines 180..187: an Unknown member.
WalkUnknown ==
    /\ AtMember
    /\ TopClass.members[Top.idx].type = "Unknown"
    /\ \/ /\ cfg_test
          /\ pc' = "panicked"
          /\ panic_msg' = UnknownPanic(Top.class_name)
          /\ UNCHANGED stack
       \/ /\ ~cfg_test
          /\ stack' = ReplaceTop([Top EXCEPT !.idx = @ + 1])
          /\ UNCHANGED <<pc, panic_msg>>
    /\ UNCHANGED <<api, cfg_test, std, origins, walks, bytes, prev_bytes, runs>>

\* Lines 157..161 and 196..205: a default-security property of Class type.
WalkClassProperty ==
    /\ AtMember
    /\ LET m == TopClass.members[Top.idx]
       IN /\ CallsClassStruct(m)
          /\ \/ /\ StructKnown(m.value_type.name)
                /\ stack' = ReplaceTop(
                       [Top EXCEPT !.table = InsertMember(@, m),
                                   !.origin = InsertOrigin(@, m, Top.class_name,
                                                           Top.idx),
                                   !.idx = @ + 1])
                /\ UNCHANGED <<std, pc, walks, panic_msg>>
             \/ /\ ~StructKnown(m.value_type.name)
                /\ StructCall(m.value_type.name, stack)
    /\ UNCHANGED <<api, cfg_test, origins, bytes, prev_bytes, runs>>

\* Lines 208..210 and 93: the recursion into the superclass, on the same
\* table.  The call is the last thing write_class_members does: a build
\* either keeps a frame for it, and the stack is exhausted after StackLimit
\* hops, or jumps, and the walk goes on (hops then stays at StackLimit).
WalkSuperclass ==
    /\ AtEnd
    /\ TopClass.superclass # ROOT
    /\ \/ /\ FindClass(TopClass.superclass) = None
          /\ pc' = "panicked"
          /\ panic_msg' = UnwrapNone
          /\ UNCHANGED stack
       \/ /\ FindClass(TopClass.superclass) # None
          /\ Top.hops < StackLimit
          /\ stack' = ReplaceTop([Top EXCEPT !.class_name = TopClass.superclass,
                                             !.idx = 1,
                                             !.hops = @ + 1])
          /\ UNCHANGED <<pc, panic_msg>>
       \/ /\ FindClass(TopClass.superclass) # None
          /\ Top.hops = StackLimit
          /\ stack' = ReplaceTop([Top EXCEPT !.class_name = TopClass.superclass,
                                             !.idx = 1])
          /\ UNCHANGED <<pc, panic_msg>>
       \/ /\ FindClass(TopClass.superclass) # None
          /\ Top.hops = StackLimit
          /\ pc' = "overflowed"
          /\ panic_msg' = "stack overflow"
          /\ UNCHANGED stack
    /\ UNCHANGED <<api, cfg_test, std, origins, walks, bytes, prev_bytes, runs>>

\* Lines 84, then 160 and 196..205 in the caller, or 62..65 in write_class:
\* the walk reached the root, the table replaces the reserved entry, and
\* the caller goes on with Struct(name).
ReturnStruct ==
    /\ AtEnd
    /\ TopClass.superclass = ROOT
    /\ origins' = Insert(origins, Top.owner, Top.origin)
    /\ \/ /\ Len(stack) > 1
          /\ LET caller == stack[Len(stack) - 1]
                 m == FindClass(caller.class_name)[1].members[caller.idx]
             IN stack' = Append(SubSeq(stack, 1, Len(stack) - 2),
                    [caller EXCEPT !.table = InsertMember(@, m),
                                   !.origin = InsertOrigin(@, m, caller.class_name,
                                                           caller.idx),
                                   !.idx = @ + 1])
          /\ std' = [std EXCEPT !.structs = Insert(@, Top.owner, Top.table)]
          /\ UNCHANGED pc
       \/ /\ Len(stack) = 1
          /\ stack' = <<>>
          /\ std' = [std EXCEPT
                        !.structs = Insert(@, Top.owner, Top.table),
                        !.globals = Insert(@, pc,
                                           from_field_kind(StructKind(WellKnown[pc])))]
          /\ pc' = AfterStage(pc)
    /\ UNCHANGED <<api, cfg_test, walks, panic_msg, bytes, prev_bytes, runs>>

(***************************************************************************)
(* The rest of the pipeline of start_generation.                           *)
(***************************************************************************)
\* Lines 224..229
RECURSIVE WriteEnumItems(_, _, _)
WriteEnumItems(globals, enuhm, i) ==
    IF i > Len(enuhm.items) THEN globals
    ELSE WriteEnumItems(
             Insert(globals, "Enum." \o enuhm.name \o "." \o enuhm.items[i].name,
                    from_field_kind(StructKind("EnumItem"))),
             enuhm, i + 1)

\* Lines 214..230
RECURSIVE WriteEnums(_, _, _)
WriteEnums(globals, enums, e) ==
    IF e > Len(enums) THEN globals
    ELSE WriteEnums(
             WriteEnumItems(
                 Insert(globals, "Enum." \o enums[e].name \o ".GetEnumItems",
                        from_field_kind(FunctionKind([arguments |-> <<>>,
                                                      method |-> TRUE,
                                                      must_use |-> TRUE]))),
                 enums[e], 1),
             enums, e + 1)

write_enums ==
    /\ pc = "write_enums"
    /\ std' = [std EXCEPT !.globals = WriteEnums(@, api.enums, 1)]
    /\ pc' = "write_instance_new"
    /\ UNCHANGED <<api, cfg_test, stack, origins, walks, panic_msg, bytes,
                   prev_bytes, runs>>

Names(items) == [i \in 1..Len(items) |-> items[i].name]

\* Lines 249..253 and 279..283
ConstantArgument(names) ==
    [argument_type |-> [type |-> "Constant", values |-> names],
     required |-> "Required(None)",
     observes |-> "ReadWrite"]

\* Mutant: the negation is lost.
IsCreatable_negated(class) == Contains(class.tags, "NotCreatable")

\* Line 238
IsCreatable(class) == ~Contains(class.tags, "NotCreatable")
\* Line 267
IsService(class) == Contains(class.tags, "Service")

\* Lines 234..244
instance_names == Names(SelectSeq(api.classes, IsCreatable))
\* Lines 263..273
service_names == Names(SelectSeq(api.classes, IsService))

write_instance_new ==
    /\ pc = "write_instance_new"
    /\ std' = [std EXCEPT !.globals =
                  Insert(@, "Instance.new",
                         from_field_kind(FunctionKind(
                             [arguments |-> <<ConstantArgument(instance_names)>>,
                              method |-> FALSE,
                              must_use |-> TRUE])))]
    /\ pc' = "write_get_service"
    /\ UNCHANGED <<api, cfg_test, stack, origins, walks, panic_msg, bytes,
                   prev_bytes, runs>>

\* Lines 277..286: the field that replaces DataModel's GetService entry.
GetServiceField ==
    from_field_kind(FunctionKind(
        [arguments |-> <<ConstantArgument(service_names)>>,
         method |-> TRUE,
         must_use |-> TRUE]))

\* Lines 262..287: both get_mut(..).unwrap() panic on a missing key.
write_get_service ==
    /\ pc = "write_get_service"
    /\ \/ /\ "DataModel" \in DOMAIN std.structs
          /\ "GetService" \in DOMAIN std.structs["DataModel"]
          /\ std' = [std EXCEPT !.structs["DataModel"]["GetService"] = GetServiceField]
          /\ pc' = "write_roblox_classes"
          /\ UNCHANGED panic_msg
       \/ /\ \/ "DataModel" \notin DOMAIN std.structs
             \/ "GetService" \notin DOMAIN std.structs["DataModel"]
          /\ pc' = "panicked"
          /\ panic_msg' = UnwrapNone
          /\ UNCHANGED std
    /\ UNCHANGED <<api, cfg_test, stack, origins, walks, bytes, prev_bytes, runs>>

IsEvent(member) == member.type = "Event"
IsProperty(member) == member.type = "Property"

\* Lines 291..308
RobloxClassOf(class) ==
    [superclass |-> class.superclass,
     events |-> Names(SelectSeq(class.members, IsEvent)),
     properties |-> Names(SelectSeq(class.members, IsProperty))]

\* Lines 290..310
RECURSIVE WriteRobloxClasses(_, _)
WriteRobloxClasses(roblox_classes, i) ==
    IF i > Len(api.classes) THEN roblox_classes
    ELSE WriteRobloxClasses(
             Insert(roblox_classes, api.classes[i].name,
                    RobloxClassOf(api.classes[i])),
             i + 1)

write_roblox_classes ==
    /\ pc = "write_roblox_classes"
    /\ std' = [std EXCEPT !.roblox_classes = WriteRobloxClasses(@, 1)]
    /\ pc' = "emit"
    /\ UNCHANGED <<api, cfg_test, stack, origins, walks, panic_msg, bytes,
                   prev_bytes, runs>>

\* Mutant: the reading itself, not its whole seconds.
timestamp_subsecond(time) == time

\* time.timestamp(): whole seconds of a reading in half seconds.
timestamp(time) == time \div 2

\* Lines 47..50: the header line; {time} prints the whole reading.
HeaderLine(time) == <<"# This file was @generated by generate-roblox-std at ", time>>

\* Lines 43..45
Stamp(lib, time) ==
    [lib EXCEPT !.last_updated = Some(timestamp(time)),
                !.last_selene_version = Some(CARGO_PKG_VERSION)]

\* serde_yaml::to_string(&self.std): one line per field of the descriptor;
\* a BTreeMap is written in key order, so that its text is a function of
\* its entries alone.
to_string(lib) ==
    <<<<"base", lib.base>>,
      <<"last_updated", lib.last_updated>>,
      <<"last_selene_version", lib.last_selene_version>>,
      <<"roblox_classes", lib.roblox_classes>>,
      <<"globals", lib.globals>>,
      <<"structs", lib.structs>>>>

\* Lines 40..57: stamp, write the header and the YAML, extend, return.
emit ==
    /\ pc = "emit"
    /\ \E time \in 0..MaxClock :
          /\ bytes' = <<HeaderLine(time)>> \o to_string(Stamp(std, time))
          /\ std' = extend(Stamp(std, time), ParentLibrary)
    /\ pc' = "done"
    /\ UNCHANGED <<api, cfg_test, stack, origins, walks, panic_msg, prev_bytes,
                   runs>>

\* Lines 16..21: generate() is called again, on the same dump.
generate ==
    /\ pc = "done"
    /\ runs < MaxRuns
    /\ runs' = runs + 1
    /\ prev_bytes' = bytes
    /\ bytes' = <<>>
    /\ std' = roblox_base
    /\ pc' = "game"
    /\ origins' = EmptyMap
    /\ walks' = EmptyMap
    /\ UNCHANGED <<api, cfg_test, stack, panic_msg>>

\* One call of generate(): the steps of start_generation.
Run ==
    \/ write_class
    \/ WalkMember
    \/ WalkUnknown
    \/ WalkClassProperty
    \/ WalkSuperclass
    \/ ReturnStruct
    \/ write_enums
    \/ write_instance_new
    \/ write_get_service
    \/ write_roblox_classes
    \/ emit

Next == Run \/ generate

Spec == Init /\ [][Next]_vars

\* One call of generate(), by one thread that runs until the call returns
\* or aborts.
FairSpec == Init /\ [][Run]_vars /\ WF_vars(Run)

(***************************************************************************)
(* Vocabulary of the properties.                                           *)
(***************************************************************************)
Done == pc = "done"
Aborted == pc \in {"panicked", "overflowed"}

\* The structs write_class_struct added to the baseline's.
Synthesized == (DOMAIN std.structs) \ BaseStructs

MemberAt(ref) == FindClass(ref.class_name)[1].members[ref.idx]
MembersOf(class_name) == FindClass(class_name)[1].members
Emitted(m) == m.type # "Unknown" /\ MemberField(m) # None
Projection(m) == Deprecate(MemberField(m)[1], m.tags)
HasTag(m, tag) == m.type # "Unknown" /\ Contains(TagsOf(m.tags), tag)

\* The superclass chain of a class, the class first, as far as it is in the
\* dump and for at most fuel classes.
RECURSIVE ChainFrom(_, _)
ChainFrom(class_name, fuel) ==
    IF class_name = ROOT \/ fuel = 0 \/ FindClass(class_name) = None THEN <<>>
    ELSE <<class_name>> \o ChainFrom(FindClass(class_name)[1].superclass, fuel - 1)
Chain(class_name) == ChainFrom(class_name, Len(api.classes))
ChainSet(class_name) == {Chain(class_name)[i] : i \in 1..Len(Chain(class_name))}

\* The chain of the class ends at the root sentinel.
RECURSIVE ReachesRoot(_, _)
ReachesRoot(class_name, fuel) ==
    \/ class_name = ROOT
    \/ /\ fuel > 0
       /\ FindClass(class_name) # None
       /\ ReachesRoot(FindClass(class_name)[1].superclass, fuel - 1)

EmittedAt(class_name, name) ==
    {i \in 1..Len(MembersOf(class_name)) :
        /\ Emitted(MembersOf(class_name)[i])
        /\ MembersOf(class_name)[i].name = name}
EmittedNames(class_name) ==
    {MembersOf(class_name)[i].name :
        i \in {j \in 1..Len(MembersOf(class_name)) : Emitted(MembersOf(class_name)[j])}}
LastEmitted(class_name, name) ==
    CHOOSE i \in EmittedAt(class_name, name) :
        \A j \in EmittedAt(class_name, name) : j <= i

(***************************************************************************)
(* C1.  Inheritance flattening.                                            *)
(***************************************************************************)
\* C1: after a successful generation, for every synthesized struct C and
\* every name emitted along the superclass chain of C, structs[C] has an
\* entry of that name, and the entry is the projection of the member of the
\* class nearest to C that emits it: inherited members are present, and the
\* child wins a collision with an ancestor.  (DataModel.GetService, which
\* write_get_service overwrites, only has to be present.)
C1_ChildWins ==
    Done =>
        \A S \in Synthesized :
            \A k \in 1..Len(Chain(S)) :
                \A n \in EmittedNames(Chain(S)[k]) :
                    (\A j \in 1..(k - 1) : n \notin EmittedNames(Chain(S)[j]))
                    => /\ n \in DOMAIN std.structs[S]
                       /\ (<<S, n>> # <<"DataModel", "GetService">>
                           => std.structs[S][n] =
                                  Projection(MembersOf(Chain(S)[k])[
                                      LastEmitted(Chain(S)[k], n)]))

(***************************************************************************)
(* C2.  Determinism.                                                       *)
(***************************************************************************)
SecondRunDone == Done /\ runs > 1
NotLastUpdated(line) == line[1] # "last_updated"
\* The clock reading of a run, as its header line prints it, and its whole
\* seconds.
ReadingOf(output) == output[1][2]
SecondsOf(output) == ReadingOf(output) \div 2

\* C2 (as claimed): two runs of generate() on the same dump, at any two
\* clock readings, return the same bytes once the first line is removed.
C2_SameBody == SecondRunDone => Tail(bytes) = Tail(prev_bytes)

\* C2 (amended): two runs on the same dump return the same bytes once the
\* first line and the last_updated line of the body are removed; the
\* last_updated line carries the whole seconds of the reading of the run, so
\* that the bodies are the same exactly when both runs read the same second.
C2_SameBodyButStamp ==
    SecondRunDone =>
        /\ SelectSeq(Tail(bytes), NotLastUpdated)
               = SelectSeq(Tail(prev_bytes), NotLastUpdated)
        /\ (Tail(bytes) = Tail(prev_bytes)
               <=> SecondsOf(bytes) = SecondsOf(prev_bytes))

\* Two runs of one dump ended at readings of different seconds.
C2_Witness ==
    /\ SecondRunDone
    /\ SecondsOf(bytes) # SecondsOf(prev_bytes)
    /\ std.structs["DataModel"] # EmptyMap

(***************************************************************************)
(* C3.  Security filter.                                                   *)
(***************************************************************************)
Restricted(m) == m.type = "Property" /\ m.security # DefaultSecurity
RestrictedRefs ==
    UNION {{[class_name |-> c, idx |-> i] :
               i \in {j \in 1..Len(MembersOf(c)) : Restricted(MembersOf(c)[j])}} :
           c \in ClassNames}
InSeq(seq, x) == \E i \in 1..Len(seq) : seq[i] = x

\* No entry of a synthesized struct was written for a property whose
\* security is not the default.
NoRestrictedField ==
    \A S \in Synthesized :
        \A n \in DOMAIN origins[S] : origins[S][n] \notin RestrictedRefs

\* C3 (as claimed): after a successful generation no struct holds a field
\* projected from a property of non-default security, and no such property
\* is named in roblox_classes[C].properties.
C3_NowhereInOutput ==
    Done =>
        /\ NoRestrictedField
        /\ \A ref \in RestrictedRefs :
              ~InSeq(std.roblox_classes[ref.class_name].properties,
                     MemberAt(ref).name)

\* C3 (amended): after a successful generation no struct holds a field
\* projected from a property of non-default security; roblox_classes[C]
\* .properties names every Property member of C in dump order, whatever its
\* security.
C3_NotInStructs ==
    Done =>
        /\ NoRestrictedField
        /\ \A i \in 1..Len(api.classes) :
              std.roblox_classes[api.classes[i].name].properties
                  = Names(SelectSeq(api.classes[i].members, IsProperty))

\* Workspace was walked with its restricted property Hidden, which is in the
\* class index and not in the struct.
C3_Witness ==
    /\ Done
    /\ [class_name |-> "Workspace", idx |-> 1] \in RestrictedRefs
    /\ MemberAt([class_name |-> "Workspace", idx |-> 1]).name = "Hidden"
    /\ "Hidden" \notin DOMAIN std.structs["Workspace"]
    /\ InSeq(std.roblox_classes["Workspace"].properties, "Hidden")

(***************************************************************************)
(* C4.  Deprecation tag.                                                   *)
(***************************************************************************)
\* The entry carries the annotation iff the member it was written for
\* carries the Deprecated tag.
TagMatches(S, n) ==
    /\ std.structs[S][n].deprecated \in {None, Some(DeprecatedNote)}
    /\ (std.structs[S][n].deprecated = Some(DeprecatedNote)
           <=> HasTag(MemberAt(origins[S][n]), "Deprecated"))

\* C4 (as claimed): at the end of a successful generation every entry other
\* than * of every synthesized struct carries the deprecated annotation iff
\* its source member carries the Deprecated tag.
C4_EveryEntry ==
    Done =>
        \A S \in Synthesized :
            \A n \in (DOMAIN std.structs[S]) \ {"*"} : TagMatches(S, n)

\* C4 (amended): the same for every entry other than * and other than
\* DataModel.GetService, which write_get_service replaces by a field without
\* annotation whatever the tags of its source member.
C4_EveryEntryButGetService ==
    Done =>
        /\ \A S \in Synthesized :
              \A n \in (DOMAIN std.structs[S]) \ {"*"} :
                  <<S, n>> # <<"DataModel", "GetService">> => TagMatches(S, n)
        /\ std.structs["DataModel"]["GetService"].deprecated = None

\* DataModel.GetService came from a deprecated member, and another entry of
\* DataModel carries the annotation.
C4_Witness ==
    /\ Done
    /\ HasTag(MemberAt(origins["DataModel"]["GetService"]), "Deprecated")
    /\ \E n \in DOMAIN std.structs["DataModel"] :
          std.structs["DataModel"][n].deprecated = Some(DeprecatedNote)
    /\ \E n \in (DOMAIN origins["DataModel"]) \ {"GetService"} :
          MemberAt(origins["DataModel"][n]).tags = None

(***************************************************************************)
(* C5.  Constructor closure.                                               *)
(***************************************************************************)
Range(seq) == {seq[i] : i \in 1..Len(seq)}
ConstantSet(field) == Range(field.field_kind.behavior.arguments[1].argument_type.values)
TaggedClasses(tag) ==
    {api.classes[i].name :
        i \in {j \in 1..Len(api.classes) : tag \in Range(api.classes[j].tags)}}

\* C5: after a successful generation the Constant set of Instance.new is
\* the set of the classes of the dump without the NotCreatable tag, and the
\* Constant set of DataModel.GetService the set of those with the Service
\* tag, synthesized or not.
C5_ConstructorClosure ==
    Done =>
        /\ ConstantSet(std.globals["Instance.new"])
               = Range(Names(api.classes)) \ TaggedClasses("NotCreatable")
        /\ ConstantSet(std.structs["DataModel"]["GetService"])
               = TaggedClasses("Service")

\* Terrain has no struct, is a creatable service, and is in both sets.
C5_Witness ==
    /\ Done
    /\ "Terrain" \notin DOMAIN std.structs
    /\ "Terrain" \in ConstantSet(std.globals["Instance.new"])
    /\ "Terrain" \in ConstantSet(std.structs["DataModel"]["GetService"])
    /\ "Script" \notin ConstantSet(std.structs["DataModel"]["GetService"])
    /\ "DataModel" \notin ConstantSet(std.globals["Instance.new"])

(***************************************************************************)
(* C6.  Unknown-member policy.                                             *)
(***************************************************************************)
HasUnknown(class_name) ==
    /\ FindClass(class_name) # None
    /\ \E i \in 1..Len(MembersOf(class_name)) :
          MembersOf(class_name)[i].type = "Unknown"
AnyUnknown == \E c \in ClassNames : HasUnknown(c)
UnknownPanics == {UnknownPanic(c) : c \in ClassNames}

\* C6 (as claimed): for a dump in which some class has an Unknown member,
\* generation under the test configuration aborts (it never completes), and
\* generation under the non-test configuration never aborts for the member.
C6_AnyUnknownAborts ==
    /\ (cfg_test /\ AnyUnknown) => ~Done
    /\ ~cfg_test => panic_msg \notin UnknownPanics

\* C6 (amended): the policy is that of the classes write_class_members
\* walks.  Under the test configuration no walk goes past an Unknown member,
\* so that a generation that completes has walked none, and an abort for an
\* Unknown member names a class that has one; an Unknown member of a class
\* that is never walked aborts nothing.  Under the non-test configuration
\* there is no such abort, and a completed generation has, in every
\* synthesized struct, an entry for each name emitted along its chain and
\* none for another name.
C6_WalkedUnknownAborts ==
    /\ cfg_test =>
          \A f \in 1..Len(stack) :
              \A i \in 1..(stack[f].idx - 1) :
                  MembersOf(stack[f].class_name)[i].type # "Unknown"
    /\ (cfg_test /\ Done) =>
          \A S \in Synthesized : \A c \in ChainSet(S) : ~HasUnknown(c)
    /\ \A c \in ClassNames :
          panic_msg = UnknownPanic(c)
          => pc = "panicked" /\ cfg_test /\ HasUnknown(c)
    /\ (~cfg_test /\ Done) =>
          \A S \in Synthesized :
              (DOMAIN std.structs[S]) \ {"*"}
                  = UNION {EmittedNames(c) : c \in ChainSet(S)}

\* Under the test configuration the walk of Terrain, entered from a property
\* of Workspace, aborted at its Unknown member.
C6_Witness ==
    /\ cfg_test
    /\ pc = "panicked"
    /\ panic_msg = UnknownPanic("Terrain")
    /\ Len(stack) = 2
    /\ MembersOf(Top.class_name)[Top.idx].type = "Unknown"

(***************************************************************************)
(* C7.  Cycles of class-typed properties.                                  *)
(***************************************************************************)
\* write_class_members as a function of the table: the members of the
\* class, then those of its superclasses.
RECURSIVE FoldMembers(_, _, _)
FoldMembers(table, members, i) ==
    IF i > Len(members) THEN table
    ELSE FoldMembers(IF members[i].type = "Unknown" THEN table
                     ELSE InsertMember(table, members[i]),
                     members, i + 1)
RECURSIVE FlatWalk(_, _, _)
FlatWalk(table, class_name, fuel) ==
    IF FindClass(class_name)[1].superclass = ROOT \/ fuel = 0
       \/ FindClass(FindClass(class_name)[1].superclass) = None
    THEN FoldMembers(table, MembersOf(class_name), 1)
    ELSE FlatWalk(FoldMembers(table, MembersOf(class_name), 1),
                  FindClass(class_name)[1].superclass, fuel - 1)
FlatTable(class_name) ==
    FlatWalk(NewFrame(class_name).table, class_name, Len(api.classes))
\* The table at the end of the pipeline.
FinalTable(class_name) ==
    IF class_name = "DataModel"
    THEN [FlatTable(class_name) EXCEPT !["GetService"] = GetServiceField]
    ELSE FlatTable(class_name)

\* Every superclass chain of the dump ends, at the root or at a class that
\* is not in the dump.
SuperChainsEnd ==
    \A c \in ClassNames :
        \/ ReachesRoot(c, Len(api.classes))
        \/ \E i \in 1..Len(Chain(c)) :
              FindClass(FindClass(Chain(c)[i])[1].superclass) = None
                  /\ FindClass(Chain(c)[i])[1].superclass # ROOT

\* The entries written for class-typed properties are Struct(name), of a
\* struct that exists and, when synthesized, is not the placeholder.
ClassEntriesResolved(S) ==
    \A n \in DOMAIN origins[S] :
        CallsClassStruct(MemberAt(origins[S][n]))
        => /\ std.structs[S][n].field_kind
                  = StructKind(MemberAt(origins[S][n]).value_type.name)
           /\ MemberAt(origins[S][n]).value_type.name \in DOMAIN std.structs
           /\ MemberAt(origins[S][n]).value_type.name \in Synthesized
              => std.structs[MemberAt(origins[S][n]).value_type.name] # EmptyMap

C7_WalkedOnce ==
    /\ \A c \in DOMAIN walks : walks[c] <= 1
    /\ Done =>
          \A S \in Synthesized :
              /\ Count(S) = 1
              /\ std.structs[S] = FinalTable(S)
              /\ ClassEntriesResolved(S)

\* C7: with class-typed properties that form cycles, write_class_struct
\* terminates (every walk of a dump whose superclass chains end comes to an
\* end), no class is walked twice as the owner of a struct, and after a
\* successful generation every synthesized struct has been walked once and
\* holds its complete table, the referring properties as Struct(name).
C7_CycleSafety ==
    /\ []C7_WalkedOnce
    /\ (Walking /\ SuperChainsEnd) ~> ~Walking

\* Workspace and Terrain refer to each other, Script to itself, and their
\* structs are complete.
C7_Witness ==
    /\ Done
    /\ "Terrain" \in DOMAIN std.structs["Workspace"]
    /\ std.structs["Workspace"]["Terrain"].field_kind = StructKind("Terrain")
    /\ "Owner" \in DOMAIN std.structs["Terrain"]
    /\ std.structs["Terrain"]["Owner"].field_kind = StructKind("Workspace")
    /\ Count("Workspace") = 1
    /\ Count("Terrain") = 1

(***************************************************************************)
(* C8.  Cycles of superclasses.                                            *)
(***************************************************************************)
\* The walk is in a class whose superclass chain runs into a cycle.
InSuperCycle ==
    /\ Walking
    /\ Len(Chain(Top.class_name)) = Len(api.classes)
    /\ ~ReachesRoot(Top.class_name, Len(api.classes))
    /\ FindClass(FindClass(Chain(Top.class_name)[Len(api.classes)])[1].superclass)
           # None

\* C8: a walk whose superclass chain contains a cycle does not run forever:
\* generation stops in an error or abort state.
C8_CycleAborts == InSuperCycle ~> Aborted

(***************************************************************************)
(* C9.  Referential closure.                                               *)
(***************************************************************************)
Resolved(field) ==
    field.field_kind.kind = "Struct"
    => field.field_kind.name \in Synthesized \cup {"Instance", "Event", "EnumItem"}

\* C9: after a successful generation every Struct(name) field of globals
\* and of the synthesized structs names a synthesized struct, or Instance,
\* Event or EnumItem.
C9_ReferentialClosure ==
    Done =>
        /\ \A g \in DOMAIN std.globals : Resolved(std.globals[g])
        /\ \A S \in Synthesized :
              \A n \in DOMAIN std.structs[S] : Resolved(std.structs[S][n])

\* DataModel inherits a property of class Terrain from Instance, and
\* Terrain, no well-known class, has its struct.
C9_Witness ==
    /\ Done
    /\ "Child" \in DOMAIN std.structs["DataModel"]
    /\ std.structs["DataModel"]["Child"].field_kind = StructKind("Terrain")
    /\ origins["DataModel"]["Child"].class_name = "Instance"
    /\ "Terrain" \in Synthesized
    /\ std.globals["Enum.Style.A"].field_kind = StructKind("EnumItem")

====
